---- MODULE Spec2Model ----
(***************************************************************************)
(* UK citizenship helper: the Trip value object, the absence-counting      *)
(* engine of calculator.py and the loading of persisted rows (models.py),  *)
(* as driven by streamlit_app.py.                                          *)
(*                                                                         *)
(* A date is a record [year, month, day], as datetime.date stores it.      *)
(* Date arithmetic goes through the proleptic Gregorian ordinal, as        *)
(* datetime does; dates are compared field by field, as datetime does.     *)
(* All dates of the model lie far from date.min and date.max.              *)
(***************************************************************************)
EXTENDS Integers, Sequences, FiniteSets, TLC

VARIABLES
    trip_rows,   \* st.session_state.trip_rows: sequence of TripRow
    ctor_log,    \* the Trip(...) constructions of the last refresh, in order
    refresh,     \* outcome of the last refresh_trips_from_db
    call,        \* the engine call made last: [op, args, ret]
    pc,          \* position in find_earliest_application_date
    current,     \* find_earliest_application_date: local `current`
    max_date,    \* find_earliest_application_date: local `max_date`
    result       \* find_earliest_application_date: local `result`

vars == <<trip_rows, ctor_log, refresh, call, pc, current, max_date, result>>

----------------------------------------------------------------------------
(* Bounds of the model *)

MaxTrips == 2          \* rows returned by one fetch
MaxScanTrips == 1      \* the forward search is run on lists of at most this many trips
MaxSearchYears == 1    \* search_years ranges over -1 .. MaxSearchYears

(* Program constants *)

Default12 == 90
Default5 == 450

----------------------------------------------------------------------------
(* datetime.date *)

Date(y, m, d) == [year |-> y, month |-> m, day |-> d]

NoDate == Date(0, 0, 0)

Min(a, b) == IF a <= b THEN a ELSE b

_is_leap(y) == y % 4 = 0 /\ (y % 100 # 0 \/ y % 400 = 0)

_DAYS_IN_MONTH == <<31, 28, 31, 30, 31, 30, 31, 31, 30, 31, 30, 31>>

_DAYS_BEFORE_MONTH == <<0, 31, 59, 90, 120, 151, 181, 212, 243, 273, 304, 334>>

_days_in_month(y, m) ==
    IF m = 2 /\ _is_leap(y) THEN 29 ELSE _DAYS_IN_MONTH[m]

_days_before_year(year) ==
    LET y == year - 1
    IN  y * 365 + (y \div 4) - (y \div 100) + (y \div 400)

_days_before_month(y, m) ==
    _DAYS_BEFORE_MONTH[m] + (IF m > 2 /\ _is_leap(y) THEN 1 ELSE 0)

\* date.toordinal(): 0001-01-01 is day 1
toordinal(dt) ==
    _days_before_year(dt.year) + _days_before_month(dt.year, dt.month) + dt.day

\* date.fromordinal(n), datetime._ord2ymd
fromordinal(ord) ==
    LET n0 == ord - 1
        n400 == n0 \div 146097
        r400 == n0 % 146097
        n100 == r400 \div 36524
        r100 == r400 % 36524
        n4 == r100 \div 1461
        r4 == r100 % 1461
        n1 == r4 \div 365
        n == r4 % 365
        year == n400 * 400 + 1 + n100 * 100 + n4 * 4 + n1
    IN  IF n1 = 4 \/ n100 = 4
        THEN Date(year - 1, 12, 31)
        ELSE LET leapyear == n1 = 3 /\ (n4 # 24 \/ n100 = 3)
                 month0 == (n + 50) \div 32
                 preceding0 == _DAYS_BEFORE_MONTH[month0]
                               + (IF month0 > 2 /\ leapyear THEN 1 ELSE 0)
                 estimate_high == preceding0 > n
                 month == IF estimate_high THEN month0 - 1 ELSE month0
                 preceding ==
                     IF estimate_high
                     THEN preceding0 - (_DAYS_IN_MONTH[month]
                                        + (IF month = 2 /\ leapyear THEN 1 ELSE 0))
                     ELSE preceding0
             IN  Date(year, month, n - preceding + 1)

\* date.__lt__ / __le__: comparison of (year, month, day)
DateLT(a, b) ==
    \/ a.year < b.year
    \/ a.year = b.year /\ a.month < b.month
    \/ a.year = b.year /\ a.month = b.month /\ a.day < b.day

DateLE(a, b) == a = b \/ DateLT(a, b)

DateMax(a, b) == IF DateLT(a, b) THEN b ELSE a

DateMin(a, b) == IF DateLT(b, a) THEN b ELSE a

\* date + timedelta(days=k)
AddDays(dt, k) == fromordinal(toordinal(dt) + k)

\* (a - b).days
DaysBetween(a, b) == toordinal(a) - toordinal(b)

\* a fixed offset of 365 days per year instead of a calendar year
AddYears_fixed(dt, n) == AddDays(dt, 365 * n)

\* date + relativedelta(years=n): same month, day clamped to the month's length
AddYears(dt, n) ==
    LET year == dt.year + n
        day == Min(_days_in_month(year, dt.month), dt.day)
    IN  Date(year, dt.month, day)

----------------------------------------------------------------------------
(* calculator.py *)

None == [kind |-> "None"]

\* rejects a same-day trip as well
Trip_strict(start, end, note) ==
    IF DateLE(end, start)
    THEN [exc |-> "ValueError"]
    ELSE [exc |-> "none", value |-> [start |-> start, end |-> end, note |-> note]]

\* Trip(start, end, note): the dataclass constructor followed by __post_init__
Trip(start, end, note) ==
    IF DateLT(end, start)
    THEN [exc |-> "ValueError"]
    ELSE [exc |-> "none", value |-> [start |-> start, end |-> end, note |-> note]]

\* forgets the + 1 of the inclusive day count
full_absence_days_short(trip) ==
    LET abs_start == AddDays(trip.start, 1)
        abs_end == AddDays(trip.end, -1)
    IN  IF DateLT(abs_end, abs_start)
        THEN 0
        ELSE DaysBetween(abs_end, abs_start)

\* Trip.full_absence_days
full_absence_days(trip) ==
    LET abs_start == AddDays(trip.start, 1)
        abs_end == AddDays(trip.end, -1)
    IN  IF DateLT(abs_end, abs_start)
        THEN 0
        ELSE DaysBetween(abs_end, abs_start) + 1

\* drops an overlap of a single day (start >= end)
_overlap_strict(a_start, a_end, b_start, b_end) ==
    LET start == DateMax(a_start, b_start)
        end == DateMin(a_end, b_end)
    IN  IF DateLE(end, start)
        THEN None
        ELSE [kind |-> "tuple", start |-> start, end |-> end]

_overlap(a_start, a_end, b_start, b_end) ==
    LET start == DateMax(a_start, b_start)
        end == DateMin(a_end, b_end)
    IN  IF DateLT(end, start)
        THEN None
        ELSE [kind |-> "tuple", start |-> start, end |-> end]

\* one iteration of the loop of count_absent_days: what `trip` adds to total
count_trip(trip, window_start, window_end) ==
    LET trip_abs_start == AddDays(trip.start, 1)
        trip_abs_end == AddDays(trip.end, -1)
    IN  IF DateLT(trip_abs_end, trip_abs_start)
        THEN 0
        ELSE LET overlap == _overlap(window_start, window_end,
                                     trip_abs_start, trip_abs_end)
             IN  IF overlap # None
                 THEN DaysBetween(overlap.end, overlap.start) + 1
                 ELSE 0

RECURSIVE count_loop(_, _, _, _, _)
count_loop(trips, window_start, window_end, i, total) ==
    IF i > Len(trips)
    THEN total
    ELSE count_loop(trips, window_start, window_end, i + 1,
                    total + count_trip(trips[i], window_start, window_end))

count_absent_days(trips, window_start, window_end) ==
    IF DateLT(window_end, window_start)
    THEN 0
    ELSE count_loop(trips, window_start, window_end, 1, 0)

RECURSIVE absence_loop(_, _, _)
absence_loop(trips, d, i) ==
    IF i > Len(trips)
    THEN FALSE
    ELSE LET abs_start == AddDays(trips[i].start, 1)
             abs_end == AddDays(trips[i].end, -1)
         IN  IF DateLE(abs_start, d) /\ DateLE(d, abs_end)
             THEN TRUE
             ELSE absence_loop(trips, d, i + 1)

\* counts the departure day as a full absence day
is_full_absence_day_departure(trips, d) ==
    \E i \in 1..Len(trips) :
        DateLE(trips[i].start, d) /\ DateLE(d, AddDays(trips[i].end, -1))

is_full_absence_day(trips, d) == absence_loop(trips, d, 1)

\* check_candidate_date, line by line
\* the presence date without the + 1 day
presence_date_unshifted(start_5y) == start_5y

presence_date(start_5y) == AddDays(start_5y, 1)

\* the `not` of line 130 left out
present_on_presence_date_negated(trips, date) == is_full_absence_day(trips, date)

present_on_presence_date(trips, date) == ~is_full_absence_day(trips, date)

\* a total equal to the limit fails the rule
meets_12m_strict(days_12m, max_12_month_absences) == days_12m < max_12_month_absences

meets_12m(days_12m, max_12_month_absences) == days_12m <= max_12_month_absences

\* a total equal to the limit fails the rule
meets_5y_strict(days_5y, max_5_year_absences) == days_5y < max_5_year_absences

meets_5y(days_5y, max_5_year_absences) == days_5y <= max_5_year_absences

\* leaves the presence test out
fully_eligible_counts_only(meets12, meets5, present) == meets12 /\ meets5

fully_eligible(meets12, meets5, present) == meets12 /\ meets5 /\ present

\* the two window starts taken for each other
check_candidate_date_swapped(trips, candidate_date, max_12_month_absences, max_5_year_absences) ==
    LET start_12m == AddYears(candidate_date, -5)
        end_12m == AddDays(candidate_date, -1)
        start_5y == AddYears(candidate_date, -1)
        end_5y == AddDays(candidate_date, -1)
        days_12m == count_absent_days(trips, start_12m, end_12m)
        days_5y == count_absent_days(trips, start_5y, end_5y)
        date == presence_date(start_5y)
        present == present_on_presence_date(trips, date)
        meets12 == meets_12m(days_12m, max_12_month_absences)
        meets5 == meets_5y(days_5y, max_5_year_absences)
    IN  [kind |-> "CandidateCheckResult",
         candidate_date |-> candidate_date,
         days_12_months |-> days_12m,
         days_5_years |-> days_5y,
         presence_date_5y |-> date,
         present_on_presence_date |-> present,
         meets_12m_rule |-> meets12,
         meets_5y_rule |-> meets5,
         fully_eligible |-> fully_eligible(meets12, meets5, present)]

check_candidate_date(trips, candidate_date, max_12_month_absences, max_5_year_absences) ==
    LET start_12m == AddYears(candidate_date, -1)
        end_12m == AddDays(candidate_date, -1)
        start_5y == AddYears(candidate_date, -5)
        end_5y == AddDays(candidate_date, -1)
        days_12m == count_absent_days(trips, start_12m, end_12m)
        days_5y == count_absent_days(trips, start_5y, end_5y)
        date == presence_date(start_5y)
        present == present_on_presence_date(trips, date)
        meets12 == meets_12m(days_12m, max_12_month_absences)
        meets5 == meets_5y(days_5y, max_5_year_absences)
    IN  [kind |-> "CandidateCheckResult",
         candidate_date |-> candidate_date,
         days_12_months |-> days_12m,
         days_5_years |-> days_5y,
         presence_date_5y |-> date,
         present_on_presence_date |-> present,
         meets_12m_rule |-> meets12,
         meets_5y_rule |-> meets5,
         fully_eligible |-> fully_eligible(meets12, meets5, present)]

\* stops one day short of max_date
loop_test_exclusive(cur, max) == DateLT(cur, max)

\* find_earliest_application_date: the test of the while loop
loop_test(cur, max) == DateLE(cur, max)

\* the step of the loop lost: the same date is tried again
advance_stuck(cur) == cur

\* find_earliest_application_date: current += timedelta(days=1)
advance(cur) == AddDays(cur, 1)

----------------------------------------------------------------------------
(* Text: a str is a sequence of one-character strings *)

Digits == <<"0", "1", "2", "3", "4", "5", "6", "7", "8", "9">>

IsDigit(c) == \E i \in 1..10 : Digits[i] = c

DigitValue(c) == (CHOOSE i \in 1..10 : Digits[i] = c) - 1

Str(chars) == [kind |-> "str", s |-> chars]

\* date.isoformat(): "%04d-%02d-%02d"
isoformat(dt) ==
    <<Digits[((dt.year \div 1000) % 10) + 1], Digits[((dt.year \div 100) % 10) + 1],
      Digits[((dt.year \div 10) % 10) + 1], Digits[(dt.year % 10) + 1], "-",
      Digits[((dt.month \div 10) % 10) + 1], Digits[(dt.month % 10) + 1], "-",
      Digits[((dt.day \div 10) % 10) + 1], Digits[(dt.day % 10) + 1]>>

\* date.fromisoformat(text) for the YYYY-MM-DD form; anything else raises
fromisoformat(text) ==
    IF \/ Len(text) # 10
       \/ text[5] # "-" \/ text[8] # "-"
       \/ \E i \in {1, 2, 3, 4, 6, 7, 9, 10} : ~IsDigit(text[i])
    THEN [exc |-> "ValueError"]
    ELSE LET year == DigitValue(text[1]) * 1000 + DigitValue(text[2]) * 100
                     + DigitValue(text[3]) * 10 + DigitValue(text[4])
             month == DigitValue(text[6]) * 10 + DigitValue(text[7])
             day == DigitValue(text[9]) * 10 + DigitValue(text[10])
         IN  IF /\ 1 <= year /\ year <= 9999
                /\ 1 <= month /\ month <= 12
                /\ 1 <= day /\ day <= _days_in_month(year, month)
             THEN [exc |-> "none", value |-> Date(year, month, day)]
             ELSE [exc |-> "ValueError"]

IsSpace(c) == c = " "

RECURSIVE lstrip(_)
lstrip(chars) ==
    IF chars # <<>> /\ IsSpace(Head(chars)) THEN lstrip(Tail(chars)) ELSE chars

RECURSIVE rstrip(_)
rstrip(chars) ==
    IF chars # <<>> /\ IsSpace(chars[Len(chars)])
    THEN rstrip(SubSeq(chars, 1, Len(chars) - 1))
    ELSE chars

\* str.strip()
strip(chars) == rstrip(lstrip(chars))

----------------------------------------------------------------------------
(* db.py, models.py *)

\* insert_trip: the record persisted for a trip
payload(start, end, note) ==
    [start_date |-> isoformat(start),
     end_date |-> isoformat(end),
     note |-> IF note = <<>> THEN None ELSE Str(note)]

\* row_to_triprow: [exc, value] plus what the Trip constructor was given, if
\* it was reached
row_to_triprow(row) ==
    LET start == fromisoformat(row.start_date)
        end == fromisoformat(row.end_date)
        note == strip(IF row.note = None \/ row.note.s = <<>> THEN <<>> ELSE row.note.s)
    IN  IF start.exc # "none" \/ end.exc # "none"
        THEN [exc |-> "ValueError", constructed |-> FALSE]
        ELSE LET trip == Trip(start.value, end.value, note)
             IN  IF trip.exc # "none"
                 THEN [exc |-> trip.exc, constructed |-> TRUE,
                       start |-> start.value, end |-> end.value]
                 ELSE [exc |-> "none", constructed |-> TRUE,
                       start |-> start.value, end |-> end.value,
                       value |-> [id |-> row.id, trip |-> trip.value]]

\* section 4 of the page: `if not result` shows an error, else the date
earliest_section(res) == IF res = None THEN "st.error" ELSE "st.success"

\* refresh_trips_from_db: [row_to_triprow(r) for r in rows]; the first row
\* that raises ends the comprehension
RECURSIVE load_rows(_, _, _, _)
load_rows(rows, i, acc, log) ==
    IF i > Len(rows)
    THEN [exc |-> "none", value |-> acc, log |-> log]
    ELSE LET r == row_to_triprow(rows[i])
             entry == IF r.constructed
                      THEN <<[start |-> r.start, end |-> r.end, exc |-> r.exc,
                              made |-> IF r.exc = "none" THEN <<r.value.trip>> ELSE <<>>]>>
                      ELSE <<>>
         IN  IF r.exc # "none"
             THEN [exc |-> r.exc, log |-> log \o entry]
             ELSE load_rows(rows, i + 1, Append(acc, r.value), log \o entry)

----------------------------------------------------------------------------
(* The environment: what the trips table may hold, and what the user enters *)

\* trips saved through the form (insert_trip)
SavedTrips ==
    <<payload(Date(2024, 1, 1), Date(2024, 1, 2), <<>>),
      payload(Date(2024, 1, 1), Date(2024, 1, 3), <<"X", "m", "a", "s">>),
      payload(Date(2024, 6, 10), Date(2024, 6, 20), <<>>),
      payload(Date(2017, 1, 5), Date(2017, 1, 7), <<>>),
      payload(Date(2019, 2, 27), Date(2019, 3, 2), <<>>),
      payload(Date(2023, 2, 27), Date(2023, 3, 1), <<>>),
      payload(Date(2024, 2, 26), Date(2024, 2, 28), <<>>)>>

\* records written to the table by other means
ForeignRecords ==
    <<[start_date |-> isoformat(Date(2024, 1, 3)),
       end_date |-> isoformat(Date(2024, 1, 1)),
       note |-> Str(<<" ", "x", " ">>)],
      [start_date |-> <<"2", "0", "2", "4", "-", "1", "3", "-", "0", "1">>,
       end_date |-> isoformat(Date(2024, 1, 2)),
       note |-> None],
      [start_date |-> isoformat(Date(2024, 6, 12)),
       end_date |-> isoformat(Date(2024, 6, 12)),
       note |-> Str(<<" ", "x", " ">>)]>>

Records == SavedTrips \o ForeignRecords

RECURSIVE SeqsUpTo(_, _)
SeqsUpTo(S, n) ==
    IF n = 0
    THEN {<<>>}
    ELSE LET shorter == SeqsUpTo(S, n - 1)
         IN  shorter \cup {Append(q, x) : q \in shorter, x \in S}

\* fetch_trips: the rows of one user, each with the id the table gave it
Fetches ==
    {[i \in 1..Len(f) |->
         [id |-> i,
          start_date |-> Records[f[i]].start_date,
          end_date |-> Records[f[i]].end_date,
          note |-> Records[f[i]].note]] : f \in SeqsUpTo(1..Len(Records), MaxTrips)}

\* what refresh_trips_from_db makes of each fetch
Loads == {load_rows(rows, 1, <<>>, <<>>) : rows \in Fetches}

\* the dates entered as "today"
Todays == {Date(2022, 1, 5), Date(2024, 2, 29)}

Candidates == Todays \cup {Date(2024, 6, 15)}

Limits12 == {0, 1, Default12}

Limits5 == {0, 1, Default5}

\* the limits the forward search is run under
FindLimits ==
    {<<m12, Default5>> : m12 \in Limits12} \cup {<<Default12, 0>>, <<0, 0>>}

SearchYears == -1..MaxSearchYears

\* trips_for_calc = [tr.trip for tr in st.session_state.trip_rows]
trips_for_calc == [i \in 1..Len(trip_rows) |-> trip_rows[i].trip]

\* the dates a loaded trip makes interesting, and the candidates' window ends
ProbeDates ==
    UNION {{trips_for_calc[i].start, AddDays(trips_for_calc[i].start, 1),
            AddDays(trips_for_calc[i].end, -1), trips_for_calc[i].end}
           : i \in 1..Len(trips_for_calc)}
    \cup {AddDays(AddYears(c, -5), 1) : c \in Candidates}

WindowDates ==
    {Date(2016, 12, 31), Date(2019, 2, 28), Date(2024, 1, 2), Date(2024, 6, 12),
     Date(2024, 12, 31)}

----------------------------------------------------------------------------
(* Actions *)

NoCall == [op |-> "none"]

Init ==
    /\ trip_rows = <<>>
    /\ ctor_log = <<>>
    /\ refresh = "none"
    /\ call = NoCall
    /\ pc = "idle"
    /\ current = NoDate
    /\ max_date = NoDate
    /\ result = None

\* the top of a script run: nothing computed yet
Fresh == pc = "idle" /\ call = NoCall /\ refresh = "none"

InScan == pc \in {"test", "body"}

NoScan == /\ pc' = "idle" /\ current' = NoDate /\ max_date' = NoDate /\ result' = None

NoLoad == /\ ctor_log' = <<>> /\ refresh' = "none"

\* refresh_trips_from_db
RefreshTrips ==
    /\ Fresh
    /\ \E r \in Loads :
          /\ trip_rows' = IF r.exc = "none" THEN r.value ELSE trip_rows
          /\ ctor_log' = r.log
          /\ refresh' = IF r.exc = "none" THEN "ok" ELSE r.exc
    /\ call' = NoCall
    /\ NoScan

\* section 1 of the page: t.full_absence_days() for a saved trip
FullAbsenceDays ==
    /\ Fresh
    /\ \E i \in 1..Len(trip_rows) :
          call' = [op |-> "full_absence_days",
                   args |-> [trip |-> trip_rows[i].trip],
                   ret |-> full_absence_days(trip_rows[i].trip)]
    /\ NoScan /\ NoLoad
    /\ UNCHANGED trip_rows

CountAbsentDays ==
    /\ Fresh
    /\ \E ws \in WindowDates, we \in WindowDates :
          call' = [op |-> "count_absent_days",
                   args |-> [window_start |-> ws, window_end |-> we],
                   ret |-> count_absent_days(trips_for_calc, ws, we)]
    /\ NoScan /\ NoLoad
    /\ UNCHANGED trip_rows

IsFullAbsenceDay ==
    /\ Fresh
    /\ \E d \in ProbeDates :
          call' = [op |-> "is_full_absence_day",
                   args |-> [d |-> d],
                   ret |-> is_full_absence_day(trips_for_calc, d)]
    /\ NoScan /\ NoLoad
    /\ UNCHANGED trip_rows

\* section 3 of the page, and the engine's check called on its own
CheckCandidateDate ==
    /\ Fresh
    /\ \E c \in Candidates, m12 \in Limits12, m5 \in Limits5 :
          call' = [op |-> "check_candidate_date",
                   args |-> [candidate_date |-> c, max_12_month_absences |-> m12,
                             max_5_year_absences |-> m5],
                   ret |-> check_candidate_date(trips_for_calc, c, m12, m5)]
    /\ NoScan /\ NoLoad
    /\ UNCHANGED trip_rows

\* find_earliest_application_date: entry, up to the first loop test
FindStart ==
    /\ Fresh
    /\ Len(trip_rows) <= MaxScanTrips
    /\ \E today \in Todays, sy \in SearchYears, lim \in FindLimits :
          /\ call' = [op |-> "find_earliest_application_date",
                      args |-> [today |-> today, search_years |-> sy,
                                max_12_month_absences |-> lim[1],
                                max_5_year_absences |-> lim[2]],
                      ret |-> None,
                      shown |-> "nothing"]
          /\ max_date' = AddYears(today, sy)
          /\ current' = today
    /\ pc' = "test"
    /\ result' = None
    /\ NoLoad
    /\ UNCHANGED trip_rows

\* while current <= max_date: result = check_candidate_date(...)
FindCheck ==
    /\ pc = "test"
    /\ loop_test(current, max_date)
    /\ result' = check_candidate_date(trips_for_calc, current,
                                      call.args.max_12_month_absences,
                                      call.args.max_5_year_absences)
    /\ pc' = "body"
    /\ UNCHANGED <<trip_rows, ctor_log, refresh, call, current, max_date>>

\* if result.fully_eligible: return result; the page shows it
FindReturn ==
    /\ pc = "body"
    /\ result.fully_eligible
    /\ call' = [call EXCEPT !.ret = result, !.shown = earliest_section(result)]
    /\ pc' = "done"
    /\ UNCHANGED <<trip_rows, ctor_log, refresh, current, max_date, result>>

\* otherwise current += timedelta(days=1)
FindAdvance ==
    /\ pc = "body"
    /\ ~result.fully_eligible
    /\ current' = advance(current)
    /\ pc' = "test"
    /\ UNCHANGED <<trip_rows, ctor_log, refresh, call, max_date, result>>

\* loop test false: return None; the page reports that no date was found
FindExhausted ==
    /\ pc = "test"
    /\ ~loop_test(current, max_date)
    /\ call' = [call EXCEPT !.ret = None, !.shown = earliest_section(None)]
    /\ pc' = "done"
    /\ UNCHANGED <<trip_rows, ctor_log, refresh, current, max_date, result>>

\* the script run ends; its local values are dropped
Rerun ==
    /\ ~InScan
    /\ ~Fresh
    /\ call' = NoCall
    /\ NoScan /\ NoLoad
    /\ UNCHANGED trip_rows

Next ==
    \/ Rerun
    \/ RefreshTrips
    \/ FullAbsenceDays
    \/ CountAbsentDays
    \/ IsFullAbsenceDay
    \/ CheckCandidateDate
    \/ FindStart
    \/ FindCheck
    \/ FindReturn
    \/ FindAdvance
    \/ FindExhausted

Spec == Init /\ [][Next]_vars

\* a call of find_earliest_application_date moves to its next position
ScanRuns == InScan /\ pc' \in {"test", "body", "done"}

\* find_earliest_application_date is synchronous, single-threaded code: once
\* called it runs on, its position changing until it returns. Under Next the
\* steps that change pc inside a call are FindCheck, FindReturn, FindAdvance
\* and FindExhausted, one of which is enabled at each position of the loop.
FairSpec == Spec /\ WF_pc(ScanRuns)

\* the values a caller assigns to the fields of a Trip it holds
AssignedDates == {Date(2023, 12, 31)}

AssignedNotes == {<<"x">>}

\* `trip.start = v`, `trip.end = v`, `trip.note = v` on a Trip of the list:
\* Trip is a plain @dataclass, so the assignment stores the value, and
\* __post_init__ runs from __init__ only
SetTripAttr ==
    /\ Fresh
    /\ \E i \in 1..Len(trip_rows), name \in {"start", "end", "note"} :
          \E v \in (IF name = "note" THEN AssignedNotes ELSE AssignedDates) :
              /\ trip_rows' = [trip_rows EXCEPT ![i].trip = [@ EXCEPT ![name] = v]]
              /\ call' = [op |-> "setattr",
                          args |-> [index |-> i, name |-> name, value |-> v]]
    /\ NoScan /\ NoLoad

NextTrip ==
    \/ Next
    \/ SetTripAttr

\* the page's script together with the operations the class Trip offers
SpecTrip == Init /\ [][NextTrip]_vars

----------------------------------------------------------------------------
(* The calendar, stated without the ordinal arithmetic of the code *)

Ord(dt) == toordinal(dt)

\* n calendar years before c: same month and day, 29 February clamped
YearsBack(c, n) ==
    LET y == c.year - n
        leap == y % 4 = 0 /\ (y % 100 # 0 \/ y % 400 = 0)
    IN  IF c.month = 2 /\ c.day = 29 /\ ~leap
        THEN Date(y, 2, 28)
        ELSE Date(y, c.month, c.day)

NextDay(dt) ==
    IF dt.day < _days_in_month(dt.year, dt.month)
    THEN Date(dt.year, dt.month, dt.day + 1)
    ELSE IF dt.month < 12
         THEN Date(dt.year, dt.month + 1, 1)
         ELSE Date(dt.year + 1, 1, 1)

PrevDay(dt) ==
    IF dt.day > 1
    THEN Date(dt.year, dt.month, dt.day - 1)
    ELSE IF dt.month > 1
         THEN Date(dt.year, dt.month - 1, _days_in_month(dt.year, dt.month - 1))
         ELSE Date(dt.year - 1, 12, 31)

\* trip's absence interval [start+1, end-1] contains day number n
Covers(trip, n) == Ord(trip.start) + 1 <= n /\ n <= Ord(trip.end) - 1

\* days of trip's absence interval inside the days lo..hi
CoveredDays(trip, lo, hi) ==
    Cardinality({n \in (Ord(trip.start) + 1)..(Ord(trip.end) - 1) : lo <= n /\ n <= hi})

RECURSIVE SumCovered(_, _, _, _)
SumCovered(trips, lo, hi, i) ==
    IF i > Len(trips)
    THEN 0
    ELSE CoveredDays(trips[i], lo, hi) + SumCovered(trips, lo, hi, i + 1)

ExpectedCount(trips, lo, hi) == SumCovered(trips, lo, hi, 1)

IsCall(op) == call.op = op

TripB == [start |-> Date(2024, 1, 1), end |-> Date(2024, 1, 3)]

TripC == [start |-> Date(2024, 6, 10), end |-> Date(2024, 6, 20)]

SameDates(trip, t) == trip.start = t.start /\ trip.end = t.end

----------------------------------------------------------------------------
(* Claims *)

\* C1: every Trip construction with end < start raises ValueError and yields
\* no Trip; every construction with end >= start succeeds and yields the Trip
\* with those dates. This holds for the constructions row_to_triprow makes
\* from persisted rows, and for the reversal of every loaded trip.
C1_TripRangeValidated ==
    /\ \A i \in 1..Len(ctor_log) :
          LET e == ctor_log[i]
          IN  IF Ord(e.end) < Ord(e.start)
              THEN e.exc = "ValueError" /\ e.made = <<>>
              ELSE /\ e.exc = "none"
                   /\ Len(e.made) = 1
                   /\ SameDates(e.made[1], e)
    /\ refresh = "ok" =>
          \A i \in 1..Len(trips_for_calc) :
              LET t == trips_for_calc[i]
              IN  /\ Ord(t.end) >= Ord(t.start)
                  /\ (Trip(t.end, t.start, t.note).exc = "ValueError")
                        = (Ord(t.start) < Ord(t.end))

\* a refresh that built one Trip (a same-day one included) and then met a
\* row with end < start
C1_Witness ==
    /\ refresh = "ValueError"
    /\ Len(ctor_log) = 2
    /\ ctor_log[1].exc = "none" /\ ctor_log[1].start = ctor_log[1].end
    /\ ctor_log[2].exc = "ValueError"
    /\ Ord(ctor_log[2].end) < Ord(ctor_log[2].start)

\* C2: full_absence_days() = max(0, (end - start).days - 1): 0 when
\* end - start <= 1 day, 1 for 2024-01-01..2024-01-03, 9 for
\* 2024-06-10..2024-06-20.
C2_FullAbsenceDays ==
    IsCall("full_absence_days") =>
        LET t == call.args.trip
            span == Ord(t.end) - Ord(t.start)
        IN  /\ call.ret = (IF span - 1 > 0 THEN span - 1 ELSE 0)
            /\ (span <= 1 => call.ret = 0)
            /\ (SameDates(t, TripB) => call.ret = 1)
            /\ (SameDates(t, TripC) => call.ret = 9)

C2_Witness ==
    /\ IsCall("full_absence_days")
    /\ SameDates(call.args.trip, TripC)
    /\ call.ret = 9

\* C3: count_absent_days is the sum over the trips, one by one, of the number
\* of days of [start+1, end-1] inside the window: no merging of overlapping
\* trips, and 0 when window_end < window_start.
C3_CountIsSumOfIntersections ==
    IsCall("count_absent_days") =>
        LET ws == call.args.window_start
            we == call.args.window_end
        IN  /\ call.ret = ExpectedCount(trips_for_calc, Ord(ws), Ord(we))
            /\ (Ord(we) < Ord(ws) => call.ret = 0)

\* two trips with the same single absence day, a window of that one day:
\* the day is counted twice
C3_Witness ==
    /\ IsCall("count_absent_days")
    /\ Len(trips_for_calc) = 2
    /\ SameDates(trips_for_calc[1], TripB) /\ SameDates(trips_for_calc[2], TripB)
    /\ call.args.window_start = Date(2024, 1, 2)
    /\ call.args.window_end = Date(2024, 1, 2)
    /\ call.ret = 2

\* C4: is_full_absence_day(trips, d) is true exactly when some trip has
\* start+1 <= d <= end-1; a trip's departure and return days are never full
\* absence days of that trip.
C4_FullAbsenceDayIff ==
    IsCall("is_full_absence_day") =>
        /\ call.ret = (\E i \in 1..Len(trips_for_calc) :
                          Covers(trips_for_calc[i], Ord(call.args.d)))
        /\ \A i \in 1..Len(trips_for_calc) :
              LET t == trips_for_calc[i]
              IN  /\ ~is_full_absence_day(<<t>>, t.start)
                  /\ ~is_full_absence_day(<<t>>, t.end)

\* the queried day is the departure day of the first trip and a full absence
\* day of the second
C4_Witness ==
    /\ IsCall("is_full_absence_day")
    /\ Len(trips_for_calc) = 2
    /\ call.args.d = trips_for_calc[1].start
    /\ Covers(trips_for_calc[2], Ord(call.args.d))
    /\ call.ret = TRUE

\* C5: check_candidate_date counts days_12_months over [c - 1 calendar year,
\* c - 1 day] and days_5_years over [c - 5 calendar years, c - 1 day]; the
\* year is a calendar year (same month and day, 29 February clamped to 28),
\* and the candidate date is in neither window.
C5_WindowsOfCheck ==
    IsCall("check_candidate_date") =>
        LET c == call.args.candidate_date
            start_12m == YearsBack(c, 1)
            start_5y == YearsBack(c, 5)
        IN  /\ call.ret.days_12_months
                 = count_absent_days(trips_for_calc, start_12m, PrevDay(c))
            /\ call.ret.days_5_years
                 = count_absent_days(trips_for_calc, start_5y, PrevDay(c))
            /\ call.ret.days_12_months
                 = ExpectedCount(trips_for_calc, Ord(start_12m), Ord(c) - 1)
            /\ call.ret.days_5_years
                 = ExpectedCount(trips_for_calc, Ord(start_5y), Ord(c) - 1)

\* candidate 2024-02-29: the absence days 2023-02-28 and 2019-02-28 are the
\* first days of the windows, which a 365-day year would leave out
C5_Witness ==
    /\ IsCall("check_candidate_date")
    /\ call.args.candidate_date = Date(2024, 2, 29)
    /\ Len(trips_for_calc) = 2
    /\ trips_for_calc[1].start = Date(2023, 2, 27)
    /\ trips_for_calc[2].start = Date(2019, 2, 27)
    /\ call.ret.days_12_months = 1
    /\ call.ret.days_5_years = 3
    /\ Ord(call.args.candidate_date) - 365 > Ord(Date(2023, 2, 28))

\* C6: presence_date_5y is (c - 5 calendar years) + 1 day (2022-01-05 gives
\* 2017-01-06), and present_on_presence_date is the negation of
\* is_full_absence_day(trips, presence_date_5y).
C6_PresenceDate ==
    IsCall("check_candidate_date") =>
        LET c == call.args.candidate_date
        IN  /\ call.ret.presence_date_5y = NextDay(YearsBack(c, 5))
            /\ (c = Date(2022, 1, 5) => call.ret.presence_date_5y = Date(2017, 1, 6))
            /\ call.ret.present_on_presence_date
                 = ~is_full_absence_day(trips_for_calc, call.ret.presence_date_5y)
            /\ call.ret.present_on_presence_date
                 = ~(\E i \in 1..Len(trips_for_calc) :
                        Covers(trips_for_calc[i], Ord(call.ret.presence_date_5y)))

\* candidate 2022-01-05 with the trip 2017-01-05..2017-01-07 loaded
C6_Witness ==
    /\ IsCall("check_candidate_date")
    /\ call.args.candidate_date = Date(2022, 1, 5)
    /\ call.ret.presence_date_5y = Date(2017, 1, 6)
    /\ ~call.ret.present_on_presence_date

\* what C7 says of a result r computed under the limits m12 and m5
RulesOfResult(r, m12, m5) ==
    /\ r.meets_12m_rule = (r.days_12_months <= m12)
    /\ r.meets_5y_rule = (r.days_5_years <= m5)
    /\ r.fully_eligible
         = (r.meets_12m_rule /\ r.meets_5y_rule /\ r.present_on_presence_date)

Returned(op) == IsCall(op) /\ (op = "find_earliest_application_date" => pc = "done")

\* C7: in every result of check_candidate_date and of
\* find_earliest_application_date, meets_12m_rule = (days_12_months <=
\* max_12_month_absences), meets_5y_rule = (days_5_years <=
\* max_5_year_absences), and fully_eligible is the conjunction of the two
\* with present_on_presence_date.
C7_RulesAndEligibility ==
    /\ Returned("check_candidate_date") =>
          RulesOfResult(call.ret, call.args.max_12_month_absences,
                        call.args.max_5_year_absences)
    /\ (Returned("find_earliest_application_date") /\ call.ret # None) =>
          RulesOfResult(call.ret, call.args.max_12_month_absences,
                        call.args.max_5_year_absences)

\* a total equal to its limit: one absence day in the last 12 months, limit 1
C7_Witness ==
    /\ Returned("check_candidate_date")
    /\ call.args.max_12_month_absences = 1
    /\ call.ret.days_12_months = 1
    /\ call.ret.meets_12m_rule
    /\ call.ret.fully_eligible

\* C8: find_earliest_application_date returns the check_candidate_date result
\* of the least fully eligible date d in [today, today + search_years calendar
\* years], both ends included, and None exactly when that range holds no
\* fully eligible date; None is an ordinary return value, which the page
\* reports as a message.
C8_EarliestEligible ==
    Returned("find_earliest_application_date") =>
        LET a == call.args
            lo == Ord(a.today)
            hi == Ord(YearsBack(a.today, -a.search_years))
            eligible(n) ==
                check_candidate_date(trips_for_calc, fromordinal(n),
                                     a.max_12_month_absences,
                                     a.max_5_year_absences).fully_eligible
        IN  IF call.ret = None
            THEN /\ \A n \in lo..hi : ~eligible(n)
                 /\ call.shown = "st.error"
            ELSE LET d == Ord(call.ret.candidate_date)
                 IN  /\ lo <= d /\ d <= hi
                     /\ call.ret = check_candidate_date(trips_for_calc,
                                       call.ret.candidate_date,
                                       a.max_12_month_absences,
                                       a.max_5_year_absences)
                     /\ call.ret.fully_eligible
                     /\ \A n \in lo..(d - 1) : ~eligible(n)
                     /\ call.shown = "st.success"

\* a search from 2024-02-29 over one year that passed over ineligible days
\* and returned the last day of its range, 2025-02-28
C8_Witness ==
    /\ Returned("find_earliest_application_date")
    /\ call.args.today = Date(2024, 2, 29)
    /\ call.args.search_years = 1
    /\ call.ret # None
    /\ call.ret.candidate_date = Date(2025, 2, 28)

\* C9: if some trip's absence interval contains presence_date_5y, then
\* present_on_presence_date and fully_eligible are both false, whatever the
\* two totals are.
C9_AbsentOnPresenceDate ==
    IsCall("check_candidate_date") =>
        LET date == NextDay(YearsBack(call.args.candidate_date, 5))
        IN  (\E i \in 1..Len(trips_for_calc) : Covers(trips_for_calc[i], Ord(date)))
                => /\ ~call.ret.present_on_presence_date
                   /\ ~call.ret.fully_eligible

\* both totals within their limits, yet not eligible
C9_Witness ==
    /\ IsCall("check_candidate_date")
    /\ call.args.candidate_date = Date(2022, 1, 5)
    /\ \E i \in 1..Len(trips_for_calc) :
          Covers(trips_for_calc[i], Ord(Date(2017, 1, 6)))
    /\ call.ret.meets_12m_rule /\ call.ret.meets_5y_rule
    /\ ~call.ret.fully_eligible

\* C10: with no trips, check_candidate_date returns days_12_months = 0,
\* days_5_years = 0, present_on_presence_date and fully_eligible, for every
\* candidate date and non-negative limits.
C10_NoTrips ==
    (IsCall("check_candidate_date") /\ trips_for_calc = <<>>) =>
        /\ call.args.max_12_month_absences >= 0
        /\ call.args.max_5_year_absences >= 0
        /\ call.ret.days_12_months = 0
        /\ call.ret.days_5_years = 0
        /\ call.ret.present_on_presence_date
        /\ call.ret.fully_eligible

\* no trips and both limits 0
C10_Witness ==
    /\ IsCall("check_candidate_date")
    /\ trips_for_calc = <<>>
    /\ call.args.max_12_month_absences = 0
    /\ call.args.max_5_year_absences = 0
    /\ call.ret.fully_eligible

\* C11: with an empty trip list, for every today T, every search_years >= 0
\* and every pair of non-negative limits, find_earliest_application_date
\* returns a result (never None), and its candidate_date is T.
C11_NoTripsEligibleToday ==
    (Returned("find_earliest_application_date") /\ trips_for_calc = <<>>
        /\ call.args.search_years >= 0
        /\ call.args.max_12_month_absences >= 0
        /\ call.args.max_5_year_absences >= 0) =>
        /\ call.ret # None
        /\ call.ret.candidate_date = call.args.today
        /\ call.ret.fully_eligible
        /\ current = call.args.today

\* no trips, search_years = 0 (the range is the single day T), both limits 0
C11_Witness ==
    /\ Returned("find_earliest_application_date")
    /\ trips_for_calc = <<>>
    /\ call.args.search_years = 0
    /\ call.args.max_12_month_absences = 0
    /\ call.args.max_5_year_absences = 0
    /\ call.args.today = Date(2024, 2, 29)
    /\ call.ret # None
    /\ call.ret.candidate_date = Date(2024, 2, 29)

\* C12: a Trip is immutable after construction: outside the load that
\* constructs the Trips, no step (an assignment to start, end or note, or an
\* engine function) changes a Trip or the trip list, and every Trip that
\* exists satisfies end >= start.
C12_TripImmutable ==
    [][/\ (refresh' # "ok" => trip_rows' = trip_rows)
       /\ \A i \in 1..Len(trip_rows') :
             Ord(trip_rows'[i].trip.end) >= Ord(trip_rows'[i].trip.start)]_vars

\* the dates of [today, today + search_years calendar years], as day numbers
ScanLo == Ord(call.args.today)

ScanHi == Ord(YearsBack(call.args.today, -call.args.search_years))

\* C13: the scan of find_earliest_application_date terminates. The candidate
\* date starts at today and grows by exactly one day per iteration, so the
\* dates checked are today, today + 1, ... in increasing order, each once;
\* every date checked lies in [today, today + search_years calendar years];
\* every call eventually returns a result or None, and it returns None after
\* zero checks when today + search_years years is before today.
C13_ScanTerminates ==
    /\ [](IsCall("find_earliest_application_date") =>
            /\ ScanLo <= Ord(current)
            /\ (Ord(current) <= ScanHi + 1 \/ current = call.args.today)
            /\ Ord(max_date) = ScanHi
            /\ (result # None =>
                   /\ ScanLo <= Ord(result.candidate_date)
                   /\ Ord(result.candidate_date) <= ScanHi
                   /\ Ord(current) = Ord(result.candidate_date)
                         + (IF pc = "test" \/ (pc = "done" /\ call.ret = None)
                            THEN 1 ELSE 0))
            /\ ((pc = "done" /\ ScanHi < ScanLo) =>
                   /\ call.ret = None
                   /\ result = None
                   /\ current = call.args.today))
    /\ [][/\ (pc = "idle" /\ pc' = "test") =>
                current' = call'.args.today /\ result' = None
          /\ (pc = "test" /\ pc' = "body") =>
                current' = current /\ result'.candidate_date = current
          /\ (pc = "body" /\ pc' = "test") =>
                Ord(current') = Ord(current) + 1
          /\ (pc = "body" /\ pc' = "done") =>
                current' = current /\ call'.ret = result
          /\ (pc = "test" /\ pc' = "done") =>
                current' = current /\ call'.ret = None]_vars
    /\ (InScan ~> pc = "done")

\* a search from 2022-01-05 over one year that checked every day of its
\* range, 2022-01-05 to 2023-01-05, and then returned None
C13_Witness ==
    /\ Returned("find_earliest_application_date")
    /\ call.args.today = Date(2022, 1, 5)
    /\ call.args.search_years = 1
    /\ call.ret = None
    /\ result # None
    /\ result.candidate_date = Date(2023, 1, 5)
    /\ current = Date(2023, 1, 6)

\* what C14 says of a result r for the candidate c under the limits m12, m5
NestedWindows(r, c, m12, m5) ==
    /\ Ord(YearsBack(c, 5)) <= Ord(YearsBack(c, 1))
    /\ Ord(YearsBack(c, 1)) <= Ord(c) - 1
    /\ 0 <= r.days_12_months
    /\ r.days_12_months <= r.days_5_years
    /\ r.days_5_years - r.days_12_months
         = ExpectedCount(trips_for_calc, Ord(YearsBack(c, 5)), Ord(YearsBack(c, 1)) - 1)
    /\ (m5 <= m12 /\ r.meets_5y_rule) => r.meets_12m_rule

\* C14: the 12-month window lies inside the 5-year window (c - 5 calendar
\* years <= c - 1 calendar year, same last day), so every result of
\* check_candidate_date, called on its own or by the forward search, has
\* 0 <= days_12_months <= days_5_years, and meets_5y_rule implies
\* meets_12m_rule whenever max_5_year_absences <= max_12_month_absences.
C14_TwelveMonthsWithinFiveYears ==
    /\ IsCall("check_candidate_date") =>
          NestedWindows(call.ret, call.args.candidate_date,
                        call.args.max_12_month_absences,
                        call.args.max_5_year_absences)
    /\ (IsCall("find_earliest_application_date") /\ result # None) =>
          NestedWindows(result, result.candidate_date,
                        call.args.max_12_month_absences,
                        call.args.max_5_year_absences)

\* candidate 2022-01-05 with the trip 2017-01-05..2017-01-07: its absence day
\* is in the 5-year window only; limits 1 and 1
C14_Witness ==
    /\ IsCall("check_candidate_date")
    /\ call.args.candidate_date = Date(2022, 1, 5)
    /\ call.args.max_5_year_absences = 1
    /\ call.args.max_12_month_absences = 1
    /\ call.ret.days_12_months = 0
    /\ call.ret.days_5_years = 1
    /\ call.ret.meets_5y_rule /\ call.ret.meets_12m_rule

====
